---- MODULE Spec2Model ----
(***************************************************************************)
(* A state-machine model of the wallet sandbox page (App component).       *)
(* Two variants of the page exist: src/src/App.tsx (legacy transactions    *)
(* only) and src/unnamed/part_000 (legacy, version-0 and lookup tables).   *)
(* The variant is fixed in the initial state.                              *)
(*                                                                         *)
(* Every step is one run-to-completion piece of JavaScript: a click        *)
(* handler up to its first await, the continuation after one awaited call  *)
(* settles, one provider event dispatched to the subscribed handlers, or   *)
(* one effect.  The provider and the RPC client are the environment: their *)
(* calls settle with a nondeterministic outcome.                           *)
(***************************************************************************)
EXTENDS Integers, Sequences, FiniteSets, TLC

\* ---- bounds of the model
MaxInputs == 3
MaxMounts == 2

\* ---- values
NULL == "null"
Keys == {"k1", "k2"}
Clusters == {"devnet", "testnet", "mainnet-beta"}
Variants == {"legacy", "v0"}

VARIABLES
  variant,          \* which page: "legacy" (App.tsx) or "v0" (part_000)
  providerPresent,  \* getProvider() returned the injected object
  provPK,           \* provider.publicKey, owned by the provider
  queue,            \* provider events emitted, not yet dispatched
  inst,             \* the mounted component instance, 0 when unmounted
  mounts,           \* instances created so far
  subs,             \* instances whose handlers are subscribed (provider.on)
  logs, cluster, connection, \* useState of the mounted instance
  publicKey, connected,      \* useState of the mounted instance (the Session)
  flows,            \* the actions initiated by clicks, with their progress
  bg,               \* provider calls made outside click handlers
  unhandled,        \* rejections that reached no rejection handler
  inputs,           \* external stimuli so far (clicks, events, unmounts)
  nextConn          \* identities handed out to Connection objects

vars == <<variant, providerPresent, provPK, queue, inst, mounts, subs, logs,
          cluster, connection, publicKey, connected, flows, bg, unhandled,
          inputs, nextConn>>

session == <<publicKey, connected>>

\* ---- conversions to text: a log line is a sequence of string tokens
toBase58(k) ==
  CASE k = "k1" -> "b58(k1)"
    [] k = "k2" -> "b58(k2)"
    [] OTHER -> "undefined"

\* new Connection(clusterApiUrl(c))
NewConnection(c, n) == [endpoint |-> c, id |-> n]

\* addLog: setLogs((logs) => [...logs, "> " + log])
addLogSkip(ls, log) == ls
addLogTwice(ls, log) == Append(Append(ls, <<"> ">> \o log), <<"> ">> \o log)
addLogFront(ls, log) == <<(<<"> ">> \o log)>> \o ls
addLog(ls, log) == Append(ls, <<"> ">> \o log)

RECURSIVE addLogs(_, _)
addLogs(ls, lines) ==
  IF lines = <<>> THEN ls ELSE addLogs(addLog(ls, Head(lines)), Tail(lines))

\* A state setter of instance i acts only while i is the mounted instance.
Live(i) == i # 0 /\ i = inst

\* ---- errors a rejected call carries
Errs == {"e1"}
stringifyErr(e) == IF e = "e1" THEN "json(e1)" ELSE "undefined"
messageOf(e) == IF e = "e1" THEN "msg(e1)" ELSE "undefined"

\* ---- the Session and the provider's event handlers (useEffect [provider, addLog])
\* S is the useState of one instance: [publicKey, connected, logs]
connectHandlerNoFlag(S, k) ==
  [S EXCEPT !.publicKey = k, !.logs = addLog(@, <<"[connect] ", toBase58(k)>>)]
connectHandler(S, k) ==
  [S EXCEPT !.publicKey = k, !.connected = TRUE,
            !.logs = addLog(@, <<"[connect] ", toBase58(k)>>)]

disconnectHandler(S) ==
  [S EXCEPT !.publicKey = NULL, !.connected = FALSE,
            !.logs = addLog(@, <<"[disconnect] ", "wave">>)]

\* the state part of the accountChanged handler; the re-connect call it makes
\* when k is absent is accountChangedReconnects
accountChangedHandler(S, k) ==
  IF k # NULL
    THEN [S EXCEPT !.publicKey = k,
                   !.logs = addLog(@, <<"[accountChanged] Switched account to ", toBase58(k)>>)]
    ELSE [S EXCEPT !.publicKey = k,
                   !.logs = addLog(@, <<"[accountChanged] Switched unknown account">>)]

\* a provider call made outside a click handler
BgCall(site, i, trusted, caught) ==
  [site |-> site, inst |-> i, onlyIfTrusted |-> trusted, caught |-> caught,
   st |-> "pending"]

\* provider.connect().then(...).catch(...) of the accountChanged handler
accountChangedReconnects(i, k) ==
  IF k = NULL THEN <<BgCall("reconnect", i, FALSE, TRUE)>> ELSE <<>>

\* provider.connect({ onlyIfTrusted: true }).catch((err) => {})
eagerConnect(i) == <<BgCall("eager", i, TRUE, TRUE)>>

\* return () => { provider.disconnect(); }
teardown(i) == <<BgCall("teardown", i, FALSE, FALSE)>>

\* what the handler attached to a background call appends when it settles
bgSettledLogAllErrors(site, ok, e) ==
  IF ok THEN <<>> ELSE << <<"[error] ", site, stringifyErr(e)>> >>
bgSettledLog(site, ok, e) ==
  CASE site = "eager" -> <<>>
    [] site = "reconnect" /\ ok -> << <<"[accountChanged] Reconnected successfully">> >>
    [] site = "reconnect" /\ ~ok ->
         << <<"[accountChanged] Failed to re-connect: ", messageOf(e)>> >>
    [] OTHER -> <<>>

\* the cluster selector's onChange and the [cluster] effect
onChangeStaleConnection(c, conn, n) == [cluster |-> c, connection |-> conn]
onChange(c, conn, n) == [cluster |-> c, connection |-> NewConnection(c, n)]

clusterEffectSilent(ls, c) == ls
clusterEffect(ls, c) == addLog(ls, <<"[cluster changed] ", c>>)

\* ---- the buttons of the page: one kind of action per button
Kind(fn, v0, lookupTable, onlyFirst, useHex) ==
  [fn |-> fn, v0 |-> v0, lookupTable |-> lookupTable, onlyFirst |-> onlyFirst,
   useHex |-> useHex]

Plain(fn) == Kind(fn, FALSE, FALSE, FALSE, FALSE)

ConnectFns == {"connect", "connectRequest", "eagerlyConnect", "eagerlyConnectRequest"}
DisconnectFns == {"disconnect", "disconnectRequest"}
MessageFns == {"signMessage", "signMessageRequest"}
SendFns == {"signAndSendTransaction", "signAndSendTransactionV0",
            "signAndSendTransactionV0WithLookupTable", "signAndSendTransactionRequest",
            "signAndSendSplTokenTransaction"}
SingleFns == {"signSingleTransaction", "signSingleTransction"}
SingleRequestFns == {"signSingleTransactionRequest", "signSingleTransctionRequest"}
MultipleFns == {"signMultipleTransactions"}
MultipleRequestFns == {"signMultipleTransactionsRequest"}
RequestFns == {"signAndSendTransactionRequest", "signMessageRequest", "connectRequest",
               "eagerlyConnectRequest", "disconnectRequest"}
                 \cup SingleRequestFns \cup MultipleRequestFns

\* the buttons rendered while publicKey is set, and while it is not
ConnectedButtons(page) ==
  IF page = "legacy"
    THEN {Plain("signAndSendTransaction"), Plain("signAndSendSplTokenTransaction"),
          Plain("signSingleTransction"), Plain("signSingleTransctionRequest"),
          Plain("signMultipleTransactions"),
          Kind("signMultipleTransactions", FALSE, FALSE, TRUE, FALSE),
          Plain("signMessage"), Plain("disconnect")}
    ELSE {Plain(fn) : fn \in SendFns \cup DisconnectFns}
         \cup {Kind("signSingleTransaction", v[1], v[2], FALSE, FALSE) :
                 v \in {<<FALSE, FALSE>>, <<TRUE, FALSE>>, <<TRUE, TRUE>>}}
         \cup {Kind("signSingleTransactionRequest", v, FALSE, FALSE, FALSE) : v \in BOOLEAN}
         \cup {Kind("signMultipleTransactions", v[1], v[2], v[3], FALSE) :
                 v \in {<<FALSE, FALSE, FALSE>>, <<TRUE, FALSE, FALSE>>,
                        <<TRUE, TRUE, FALSE>>, <<FALSE, FALSE, TRUE>>}}
         \cup {Kind("signMultipleTransactionsRequest", v[1], FALSE, v[2], FALSE) :
                 v \in {<<FALSE, FALSE>>, <<TRUE, FALSE>>, <<FALSE, TRUE>>}}
         \cup {Kind(fn, FALSE, FALSE, FALSE, h) : fn \in MessageFns, h \in BOOLEAN}

DisconnectedButtons(page) ==
  IF page = "legacy" THEN {Plain("connect")} ELSE {Plain(fn) : fn \in ConnectFns}

\* the label of the catch block's log line
errLabel(kind) ==
  CASE kind.fn \in SendFns -> "sendTransaction: "
    [] kind.fn \in {"signSingleTransaction", "signSingleTransactionRequest"} ->
         "signSingleTransaction: "
    [] kind.fn \in {"signSingleTransction", "signSingleTransctionRequest"} ->
         "signSingleTransction: "
    [] kind.fn \in MultipleFns \cup MultipleRequestFns -> "signMultipleTransactions: "
    [] kind.fn \in MessageFns -> "signMessage: "
    [] kind.fn \in DisconnectFns -> "disconnect: "
    [] kind.fn \in {"connect", "connectRequest"} -> "connect: "
    [] OTHER -> "eagerly connect: "

\* which create* function builds the payload(s) of a kind, and how many it builds
buildFn(kind) ==
  CASE kind.fn \in ConnectFns \cup DisconnectFns \cup MessageFns -> "none"
    [] kind.fn = "signAndSendSplTokenTransaction" -> "createSplTokenTransferTransaction"
    [] kind.fn = "signAndSendTransactionV0" -> "createTransferTransactionV0"
    [] kind.fn = "signAndSendTransactionV0WithLookupTable" ->
         "createTransferTransactionV0WithLookupTable"
    [] kind.fn \in {"signAndSendTransaction", "signAndSendTransactionRequest"} ->
         "createTransferTransaction"
    [] kind.v0 /\ kind.lookupTable -> "createTransferTransactionV0WithLookupTable"
    [] kind.v0 -> "createTransferTransactionV0"
    [] OTHER -> "createTransferTransaction"

buildCount(kind) ==
  CASE buildFn(kind) = "none" -> 0
    [] kind.fn \in MultipleFns \cup MultipleRequestFns -> 2
    [] OTHER -> 1

\* ---- payloads and what the RPC client and the provider return for them
kTestToPublicKeyInTableLookup == "Ed8J"
kSplRecipient == "5ofL"
kLookupTableAddress == "CE7e"

NoTx == [format |-> "undefined", obj |-> 0, feePayer |-> NULL, from |-> NULL,
         to |-> NULL, blockhash |-> "none", signed |-> FALSE]
Payload(format, obj, payer, from, to, bh) ==
  [format |-> format, obj |-> obj, feePayer |-> payer, from |-> from, to |-> to,
   blockhash |-> bh, signed |-> FALSE]

\* the block reference the cluster behind a handle reports
Blockhash(conn) ==
  CASE conn.endpoint = "devnet" -> "bh(devnet)"
    [] conn.endpoint = "testnet" -> "bh(testnet)"
    [] OTHER -> "bh(mainnet-beta)"

\* the provider signs what it is given; the transaction identifier is the
\* signature of the payload
Signed(tx) == [tx EXCEPT !.signed = TRUE]
TxId(tx) == IF tx.obj = 2 THEN "txid2" ELSE "txid1"

\* tx.serialize(), transaction.serializeMessage() and bs58.encode
serialize(tx) == [wire |-> tx]
serializeMessage(tx) == [message |-> [tx EXCEPT !.signed = FALSE]]
bs58encode(bytes) == [b58 |-> bytes]

\* JSON.stringify of a payload, as log tokens
stringifyTx(tx) ==
  <<"{", tx.format, tx.feePayer, tx.to, tx.blockhash,
    IF tx.signed THEN "signed" ELSE "unsigned", "}">>

RECURSIVE stringifyTxs(_)
stringifyTxs(txs) ==
  IF txs = <<>> THEN <<>> ELSE stringifyTx(Head(txs)) \o stringifyTxs(Tail(txs))

\* ---- the calls an action makes, recorded in the order they are issued
NoConn == [endpoint |-> "none", id |-> 0]
NoOpt == [maxRetries |-> 0, preflightCommitment |-> "none", skipPreflight |-> FALSE]
SendOpt(commitment) ==
  [maxRetries |-> 3, preflightCommitment |-> commitment, skipPreflight |-> FALSE]

RpcCall(api, conn, args) ==
  [to |-> "rpc", api |-> api, conn |-> conn, args |-> args, opt |-> NoOpt, via |-> "method"]
ProviderCall(api, args, opt) ==
  [to |-> "provider", api |-> api, conn |-> NoConn, args |-> args, opt |-> opt,
   via |-> "method"]
RequestCall(api, args, opt) ==
  [to |-> "provider", api |-> api, conn |-> NoConn, args |-> args, opt |-> opt,
   via |-> "request"]

\* ---- payload construction (create*): the part before the first await
\* pk is provider.publicKey at the time of the call; obj names the payload built
Build(fn, st, tx) == [fn |-> fn, st |-> st, tx |-> tx]
Started(b, calls, lines) == [b |-> b, calls |-> calls, lines |-> lines, err |-> "none"]

startBuild(fn, obj, pk, conn) ==
  CASE pk = NULL -> Started(Build(fn, "none", NoTx), <<>>, <<>>)
    [] fn = "createTransferTransaction" ->
         Started(Build(fn, "bh", Payload("legacy", obj, pk, pk, pk, "none")),
                 <<RpcCall("getRecentBlockhash", conn, <<"finalized">>)>>,
                 << <<"Getting recent blockhash">> >>)
    [] fn = "createTransferTransactionV0" ->
         Started(Build(fn, "bh", [NoTx EXCEPT !.obj = obj]),
                 <<RpcCall("getLatestBlockhash", conn, <<>>)>>, <<>>)
    [] fn = "createTransferTransactionV0WithLookupTable" ->
         Started(Build(fn, "lut", [NoTx EXCEPT !.obj = obj]),
                 <<RpcCall("getAddressLookupTable", conn, <<kLookupTableAddress>>)>>, <<>>)
    [] OTHER -> \* createSplTokenTransferTransaction: getAssociatedTokenAddress
         Started(Build(fn, "ata", [NoTx EXCEPT !.obj = obj]), <<>>, <<>>)

\* the continuation after an awaited step of a build settles; pk is
\* provider.publicKey when the continuation runs
Failed(b, e) == [b |-> [b EXCEPT !.st = "failed"], calls |-> <<>>, lines |-> <<>>, err |-> e]

settleBuild(b, ok, e, pk, conn, page) ==
  CASE ~ok -> Failed(b, e)
    [] b.st = "ata" ->
         Started([b EXCEPT !.st = "bh",
                    !.tx = IF page = "legacy"
                             THEN Payload("instruction", b.tx.obj, "unset", pk, kSplRecipient, "none")
                             ELSE Payload("spl", b.tx.obj, pk, pk, kSplRecipient, "none")],
                 <<RpcCall("getRecentBlockhash", conn, <<"finalized">>)>>, <<>>)
    [] b.st = "lut" ->
         Started([b EXCEPT !.st = "bh"], <<RpcCall("getLatestBlockhash", conn, <<>>)>>, <<>>)
    [] b.fn \in {"createTransferTransaction", "createSplTokenTransferTransaction"} ->
         Started([b EXCEPT !.st = "ok", !.tx.blockhash = Blockhash(conn)], <<>>,
                 << <<"blockhash: ", Blockhash(conn), " = ", "finalized">> >>)
    [] pk = NULL -> Failed(b, "TypeError")  \* compileToV0Message without a payer
    [] b.fn = "createTransferTransactionV0" ->
         Started([b EXCEPT !.st = "ok",
                    !.tx = Payload("v0", b.tx.obj, pk, pk, pk, Blockhash(conn))], <<>>, <<>>)
    [] OTHER ->
         Started([b EXCEPT !.st = "ok",
                    !.tx = Payload("v0lut", b.tx.obj, pk, pk, kTestToPublicKeyInTableLookup,
                                   Blockhash(conn))], <<>>, <<>>)

\* ---- an action (one click): its progress, the calls it issued, the lines it logged
\* pc: "build" | "sign" | "send" | "confirm" | "done"
\* result: "none" | "ok" | "error" | "silent"
NewFlow(kind, i, conn) ==
  [kind |-> kind, inst |-> i, conn |-> conn, pc |-> "build", result |-> "none",
   b |-> <<>>, signed |-> <<>>, sent |-> <<>>, sig |-> "none", trace |-> <<>>, out |-> <<>>]

\* catch (err) { addLog("[error] <label>" + JSON.stringify(err)) }
catchSilently(f, e) == [f EXCEPT !.pc = "done", !.result = "error"]
catchTwice(f, e) ==
  [f EXCEPT !.pc = "done", !.result = "error",
            !.out = @ \o << <<"[error] ", errLabel(f.kind), stringifyErr(e)>>,
                            <<"[error] ", errLabel(f.kind), stringifyErr(e)>> >>]
catch(f, e) ==
  [f EXCEPT !.pc = "done", !.result = "error",
            !.out = Append(@, <<"[error] ", errLabel(f.kind), stringifyErr(e)>>)]

issue(f, pc, calls, lines) ==
  [f EXCEPT !.pc = pc, !.trace = @ \o calls, !.out = @ \o lines]

finish(f, result, lines) ==
  [f EXCEPT !.pc = "done", !.result = result, !.out = @ \o lines]

\* the preflight commitment of the direct sign-and-submit call
directCommitment(f, page) ==
  IF page = "legacy" /\ f.kind.fn = "signAndSendTransaction" THEN "confirmed" ELSE "finalized"

messageOfTx(f, tx) == bs58encode(serializeMessage(tx))

\* the payloads of the batch-signing call: [transaction1] or [transaction1, transaction2]
batchArgsBoth(f) == <<f.b[1].tx, f.b[2].tx>>
batchArgsSwapped(f) == IF f.kind.onlyFirst THEN <<f.b[2].tx>> ELSE <<f.b[2].tx, f.b[1].tx>>
batchArgs(f) == IF f.kind.onlyFirst THEN <<f.b[1].tx>> ELSE <<f.b[1].tx, f.b[2].tx>>

\* the continuation after every payload of the action is built (or, with no
\* payload to build, the click itself): the provider is asked to sign
afterBuilds(f, page) ==
  LET fn == f.kind.fn
      none == f.b # <<>> /\ f.b[1].st = "none"
      t1 == f.b[1].tx
  IN CASE fn \in {"connect", "eagerlyConnect"} ->
            issue(f, "sign", <<ProviderCall("connect", <<fn = "eagerlyConnect">>, NoOpt)>>, <<>>)
       [] fn \in {"connectRequest", "eagerlyConnectRequest"} ->
            issue(f, "sign",
                  <<RequestCall("connect", <<fn = "eagerlyConnectRequest">>, NoOpt)>>, <<>>)
       [] fn = "disconnect" -> issue(f, "sign", <<ProviderCall("disconnect", <<>>, NoOpt)>>, <<>>)
       [] fn = "disconnectRequest" ->
            issue(f, "sign", <<RequestCall("disconnect", <<>>, NoOpt)>>, <<>>)
       [] fn = "signMessage" ->
            issue(f, "sign", <<ProviderCall("signMessage", <<f.kind.useHex>>, NoOpt)>>, <<>>)
       [] fn = "signMessageRequest" ->
            issue(f, "sign", <<RequestCall("signMessage", <<f.kind.useHex>>, NoOpt)>>, <<>>)
       [] fn \in SendFns /\ none -> finish(f, "silent", <<>>)
       [] fn = "signAndSendSplTokenTransaction" ->
            issue(f, "sign",
                  <<ProviderCall("signAndSendTransaction", <<t1>>, SendOpt("finalized"))>>,
                  << <<"created tx:">> \o stringifyTx(t1) >>)
       [] fn = "signAndSendTransactionRequest" ->
            issue(f, "sign",
                  <<RequestCall("signAndSendTransaction", <<messageOfTx(f, t1)>>,
                                SendOpt("confirmed"))>>, <<>>)
       [] fn \in SendFns ->
            issue(f, "sign",
                  <<ProviderCall("signAndSendTransaction", <<t1>>,
                                 SendOpt(directCommitment(f, page)))>>, <<>>)
       [] fn \in SingleFns ->
            issue(f, "sign", <<ProviderCall("signTransaction", <<t1>>, NoOpt)>>, <<>>)
       [] fn \in SingleRequestFns /\ none -> catch(f, "TypeError")
       [] fn \in SingleRequestFns ->
            issue(f, "sign", <<RequestCall("signTransaction", <<messageOfTx(f, t1)>>, NoOpt)>>,
                  <<>>)
       [] none -> finish(f, "silent", <<>>)
       [] fn \in MultipleFns ->
            issue(f, "sign",
                  <<ProviderCall("signAllTransactions", batchArgs(f), NoOpt)>>, <<>>)
       [] OTHER ->
            issue(f, "sign",
                  <<RequestCall("signAllTransactions",
                                [n \in DOMAIN batchArgs(f) |-> messageOfTx(f, batchArgs(f)[n])],
                                NoOpt)>>, <<>>)

\* the payloads handed to the provider by the action's signing call
signArgs(f) == f.trace[Len(f.trace)].args

\* txns.map(async (tx) => connection.sendRawTransaction(tx.serialize()))
broadcastCallsNone(f, txns) == <<>>
broadcastCallsTwice(f, txns) ==
  [n \in 1..(2 * Len(txns)) |->
     RpcCall("sendRawTransaction", f.conn, <<serialize(txns[(n + 1) \div 2])>>)]
broadcastCallsCurrentHandle(f, txns) ==
  [n \in DOMAIN txns |-> RpcCall("sendRawTransaction", connection, <<serialize(txns[n])>>)]
broadcastCalls(f, txns) ==
  [n \in DOMAIN txns |-> RpcCall("sendRawTransaction", f.conn, <<serialize(txns[n])>>)]

\* Promise.all over the broadcasts resolved: every one of them resolved
broadcastsDoneAny(f) == \E m \in DOMAIN f.sent : f.sent[m] \notin {"pending", "rejected"}
broadcastsDone(f) == \A m \in DOMAIN f.sent : f.sent[m] \notin {"pending", "rejected"}

\* the continuation after the provider's signing call resolves
signResolved(f, page) ==
  LET fn == f.kind.fn
      t1 == f.b[1].tx
      txns == [n \in DOMAIN signArgs(f) |-> Signed(signArgs(f)[n])]
  IN CASE fn \in ConnectFns \cup DisconnectFns -> finish(f, "ok", <<>>)
       [] fn \in MessageFns -> finish(f, "ok", << <<"Message signed ", "json(signature)">> >>)
       [] fn \in SendFns ->
            issue([f EXCEPT !.sig = TxId(t1)], "confirm",
                  <<RpcCall("confirmTransaction", f.conn, <<TxId(t1)>>)>>, <<>>)
       [] fn \in SingleFns ->
            issue([f EXCEPT !.signed = txns, !.sent = <<"pending">>], "send",
                  broadcastCalls(f, txns),
                  << <<"signTransaction: ">> \o stringifyTx(txns[1]) >>)
       [] fn = "signSingleTransactionRequest" ->
            finish(f, "ok", << <<"signTransaction: ">> \o stringifyTx(Signed(t1)) >>)
       [] fn = "signSingleTransctionRequest" ->
            finish(f, "ok", << <<"signTransaction: ">> \o stringifyTx(Signed(t1)),
                               <<"signature: ", TxId(t1)>> >>)
       [] fn \in MultipleFns ->
            issue([f EXCEPT !.signed = txns, !.sent = [n \in DOMAIN txns |-> "pending"]],
                  "send",
                  broadcastCalls(f, txns),
                  << <<"signMultipleTransactions txns: ">> \o stringifyTxs(txns) >>)
       [] OTHER ->
            finish(f, "ok",
                   << <<"signMultipleTransactions txns: ">>
                      \o stringifyTxs([n \in 1..(IF f.kind.onlyFirst THEN 1 ELSE 2) |->
                                         Signed(f.b[n].tx)]) >>)

\* the continuation after every broadcast of the action resolved
sendResolved(f) ==
  IF f.kind.fn \in SingleFns
    THEN finish(f, "ok", << <<"signature: ", f.sent[1]>> >>)
    ELSE finish(f, "ok", << <<"sent raw txns: ">> \o f.sent >>)

\* the continuation after the confirmation wait resolves
confirmResolvedOther(f) == finish(f, "ok", << <<"Transaction ", "txid2", " confirmed">> >>)
confirmResolved(f) == finish(f, "ok", << <<"Transaction ", f.sig, " confirmed">> >>)

\* ---- the steps of an action
unchangedByFlow ==
  UNCHANGED <<variant, providerPresent, provPK, queue, inst, mounts, subs, cluster,
              connection, publicKey, connected, bg, unhandled, nextConn>>

\* flow i moves from f to g; the lines g logged beyond f reach the log while
\* the instance that started the action is the mounted one
Advance(i, f, g) ==
  /\ flows' = [flows EXCEPT ![i] = g]
  /\ logs' = IF Live(f.inst)
               THEN addLogs(logs, SubSeq(g.out, Len(f.out) + 1, Len(g.out)))
               ELSE logs
  /\ UNCHANGED inputs
  /\ unchangedByFlow

Click(kind) ==
  /\ Live(inst)
  /\ providerPresent
  /\ inputs < MaxInputs
  /\ kind \in (IF publicKey # NULL THEN ConnectedButtons(variant)
               ELSE DisconnectedButtons(variant))
  /\ LET st == [n \in 1..buildCount(kind) |->
                  startBuild(buildFn(kind), n, provPK, connection)]
         lines == IF Len(st) = 0 THEN <<>>
                  ELSE IF Len(st) = 1 THEN st[1].lines ELSE st[1].lines \o st[2].lines
         calls == IF Len(st) = 0 THEN <<>>
                  ELSE IF Len(st) = 1 THEN st[1].calls ELSE st[1].calls \o st[2].calls
         f1 == [NewFlow(kind, inst, connection) EXCEPT
                  !.b = [n \in DOMAIN st |-> st[n].b], !.trace = calls, !.out = lines]
         f2 == IF \A n \in DOMAIN st : st[n].b.st = "none" THEN afterBuilds(f1, variant)
               ELSE f1
     IN /\ flows' = Append(flows, f2)
        /\ logs' = addLogs(logs, f2.out)
  /\ inputs' = inputs + 1
  /\ unchangedByFlow

BuildSettle(i, n, ok, e) ==
  /\ i \in DOMAIN flows
  /\ n \in DOMAIN flows[i].b
  /\ flows[i].b[n].st \in {"ata", "lut", "bh"}
  /\ flows[i].b[n].st = "ata" => ok
  /\ LET f == flows[i]
         r == settleBuild(f.b[n], ok, e, provPK, f.conn, variant)
         f1 == [f EXCEPT !.b[n] = r.b, !.trace = @ \o r.calls, !.out = @ \o r.lines]
         f2 == CASE f.pc # "build" -> f1
                 [] r.b.st = "failed" -> catch(f1, r.err)
                 [] \A m \in DOMAIN f1.b : f1.b[m].st = "ok" -> afterBuilds(f1, variant)
                 [] OTHER -> f1
     IN Advance(i, f, f2)

BuildResolve == \E i \in DOMAIN flows : \E n \in {1, 2} : BuildSettle(i, n, TRUE, "e1")
BuildReject == \E i \in DOMAIN flows : \E n \in {1, 2} : \E e \in Errs : BuildSettle(i, n, FALSE, e)

\* a provider handed no payload can only reject
SignResolve ==
  \E i \in DOMAIN flows :
    /\ flows[i].pc = "sign"
    /\ \A n \in DOMAIN flows[i].b : flows[i].b[n].st = "ok"
    /\ Advance(i, flows[i], signResolved(flows[i], variant))

SignReject ==
  \E i \in DOMAIN flows : \E e \in Errs :
    /\ flows[i].pc = "sign"
    /\ Advance(i, flows[i], catch(flows[i], e))

SendSettle(i, n, ok, e) ==
  /\ i \in DOMAIN flows
  /\ n \in DOMAIN flows[i].sent
  /\ flows[i].sent[n] = "pending"
  /\ LET f == flows[i]
         f1 == [f EXCEPT !.sent[n] = IF ok THEN TxId(f.signed[n]) ELSE "rejected"]
         f2 == CASE f.pc # "send" -> f1
                 [] ~ok -> catch(f1, e)
                 [] broadcastsDone(f1) -> sendResolved(f1)
                 [] OTHER -> f1
     IN Advance(i, f, f2)

SendResolve == \E i \in DOMAIN flows : \E n \in {1, 2} : SendSettle(i, n, TRUE, "e1")
SendReject == \E i \in DOMAIN flows : \E n \in {1, 2} : \E e \in Errs : SendSettle(i, n, FALSE, e)

ConfirmResolve ==
  \E i \in DOMAIN flows :
    /\ flows[i].pc = "confirm"
    /\ Advance(i, flows[i], confirmResolved(flows[i]))

ConfirmReject ==
  \E i \in DOMAIN flows : \E e \in Errs :
    /\ flows[i].pc = "confirm"
    /\ Advance(i, flows[i], catch(flows[i], e))

\* ---- initial state: the useState initialisers, nothing mounted yet
Init ==
  /\ variant \in Variants
  /\ providerPresent \in BOOLEAN
  /\ provPK = NULL
  /\ queue = <<>>
  /\ inst = 0
  /\ mounts = 0
  /\ subs = <<>>
  /\ logs = <<>>
  /\ cluster = "devnet"
  /\ connection = NewConnection("devnet", 0)
  /\ publicKey = NULL
  /\ connected = FALSE
  /\ flows = <<>>
  /\ bg = <<>>
  /\ unhandled = 0
  /\ inputs = 0
  /\ nextConn = 1

\* ---- mounting: a fresh instance, then its two effects
Mount ==
  /\ inst = 0
  /\ mounts < MaxMounts
  /\ mounts' = mounts + 1
  /\ inst' = mounts + 1
  /\ cluster' = "devnet"
  /\ connection' = NewConnection("devnet", nextConn)
  /\ nextConn' = nextConn + 1
  /\ publicKey' = NULL
  /\ connected' = FALSE
  /\ logs' = clusterEffect(<<>>, "devnet")
  /\ IF providerPresent
       THEN /\ bg' = bg \o eagerConnect(mounts + 1)
            /\ subs' = Append(subs, mounts + 1)
       ELSE UNCHANGED <<bg, subs>>
  /\ UNCHANGED <<variant, providerPresent, provPK, queue, flows, unhandled, inputs>>

\* unmounting runs the provider effect's cleanup (registered only with a provider)
Unmount ==
  /\ inst # 0
  /\ inputs < MaxInputs
  /\ inputs' = inputs + 1
  /\ inst' = 0
  /\ bg' = IF providerPresent THEN bg \o teardown(inst) ELSE bg
  /\ UNCHANGED <<variant, providerPresent, provPK, queue, mounts, subs, logs, cluster,
                 connection, publicKey, connected, flows, unhandled, nextConn>>

\* the user picks another cluster in the selector (rendered only with a provider)
ChangeCluster(c) ==
  /\ inst # 0
  /\ providerPresent
  /\ c # cluster
  /\ inputs < MaxInputs
  /\ inputs' = inputs + 1
  /\ LET n == onChange(c, connection, nextConn)
     IN /\ cluster' = n.cluster
        /\ connection' = n.connection
        /\ logs' = clusterEffect(logs, n.cluster)
  /\ nextConn' = nextConn + 1
  /\ UNCHANGED <<variant, providerPresent, provPK, queue, inst, mounts, subs, publicKey,
                 connected, flows, bg, unhandled>>

\* ---- the provider (environment): it changes its own state and emits an event
Emit(type, k) ==
  /\ providerPresent
  /\ inputs < MaxInputs
  /\ inputs' = inputs + 1
  /\ provPK' = k
  /\ queue' = Append(queue, [type |-> type, arg |-> k])
  /\ UNCHANGED <<variant, providerPresent, inst, mounts, subs, logs, cluster, connection,
                 publicKey, connected, flows, bg, unhandled, nextConn>>

EmitConnect == \E k \in Keys : Emit("connect", k)
EmitDisconnect == Emit("disconnect", NULL)
EmitAccountChanged == \E k \in Keys \cup {NULL} : Emit("accountChanged", k)

handle(ev, S) ==
  CASE ev.type = "connect" -> connectHandler(S, ev.arg)
    [] ev.type = "disconnect" -> disconnectHandler(S)
    [] OTHER -> accountChangedHandler(S, ev.arg)

RECURSIVE handlerCalls(_, _)
handlerCalls(ev, ss) ==
  IF ss = <<>> THEN <<>>
  ELSE (IF ev.type = "accountChanged" THEN accountChangedReconnects(Head(ss), ev.arg)
        ELSE <<>>) \o handlerCalls(ev, Tail(ss))

\* the event at the head of the queue is dispatched to every subscribed handler
Deliver ==
  /\ queue # <<>>
  /\ LET ev == Head(queue)
         S0 == [publicKey |-> publicKey, connected |-> connected, logs |-> logs]
         S1 == IF \E n \in DOMAIN subs : Live(subs[n]) THEN handle(ev, S0) ELSE S0
     IN /\ publicKey' = S1.publicKey
        /\ connected' = S1.connected
        /\ logs' = S1.logs
        /\ bg' = bg \o handlerCalls(ev, subs)
  /\ queue' = Tail(queue)
  /\ UNCHANGED <<variant, providerPresent, provPK, inst, mounts, subs, cluster,
                 connection, flows, unhandled, inputs, nextConn>>

\* a background provider call settles
BgSettle(j, ok, e) ==
  /\ j \in DOMAIN bg
  /\ bg[j].st = "pending"
  /\ bg' = [bg EXCEPT ![j].st = IF ok THEN "resolved" ELSE "rejected"]
  /\ logs' = IF Live(bg[j].inst) THEN addLogs(logs, bgSettledLog(bg[j].site, ok, e))
             ELSE logs
  /\ unhandled' = IF ~ok /\ ~bg[j].caught THEN unhandled + 1 ELSE unhandled
  /\ UNCHANGED <<variant, providerPresent, provPK, queue, inst, mounts, subs, cluster,
                 connection, publicKey, connected, flows, inputs, nextConn>>

BgResolve == \E j \in DOMAIN bg : BgSettle(j, TRUE, "e1")
BgReject == \E j \in DOMAIN bg : \E e \in Errs : BgSettle(j, FALSE, e)

\* the Session lifecycle alone: mounting, the cluster selector, provider events
\* and the provider calls made outside click handlers
SessionNext ==
  \/ Mount
  \/ Unmount
  \/ \E c \in Clusters : ChangeCluster(c)
  \/ EmitConnect
  \/ EmitDisconnect
  \/ EmitAccountChanged
  \/ Deliver
  \/ BgResolve
  \/ BgReject

Next ==
  \/ SessionNext
  \/ \E kind \in ConnectedButtons(variant) \cup DisconnectedButtons(variant) : Click(kind)
  \/ BuildResolve
  \/ BuildReject
  \/ SignResolve
  \/ SignReject
  \/ SendResolve
  \/ SendReject
  \/ ConfirmResolve
  \/ ConfirmReject

\* the page from its construction, no button clicked
Spec == Init /\ [][SessionNext]_vars

\* the page as it stands once mounted with a provider whose eager connect
\* resolved and whose connect event for k1 was handled (one stimulus so far)
InitFlow ==
  /\ variant \in Variants
  /\ providerPresent = TRUE
  /\ provPK = "k1"
  /\ queue = <<>>
  /\ inst = 1
  /\ mounts = 1
  /\ subs = <<1>>
  /\ logs = connectHandler([publicKey |-> NULL, connected |-> FALSE,
                            logs |-> clusterEffect(<<>>, "devnet")], "k1").logs
  /\ cluster = "devnet"
  /\ connection = NewConnection("devnet", 1)
  /\ publicKey = "k1"
  /\ connected = TRUE
  /\ flows = <<>>
  /\ bg = <<[eagerConnect(1)[1] EXCEPT !.st = "resolved"]>>
  /\ unhandled = 0
  /\ inputs = 1
  /\ nextConn = 2

FlowSpec == InitFlow /\ [][Next]_vars

\* ======================================================================
\* Properties
\* ======================================================================

\* a log line as rendered ("> " + text) whose text starts with the error marker
IsErrorLine(line) == Len(line) >= 2 /\ line[1] = "> " /\ line[2] = "[error] "
\* a line as passed to addLog
IsErrorText(text) == Len(text) >= 1 /\ text[1] = "[error] "

\* the log grew by exactly the lines given
Appended(lines) == logs' = logs \o [n \in DOMAIN lines |-> <<"> ">> \o lines[n]]

\* C1: the Session's account identity is non-null if and only if its
\* connected flag is true, in every state reached by connect, disconnect
\* and accountChanged events.
C1_IdentityIffConnected == (publicKey # NULL) <=> connected

\* a provider call of action i is rejected in this step
FlowCallRejected(i) ==
  /\ i \in DOMAIN flows
  /\ flows[i].pc = "sign"
  /\ flows'[i].pc = "done"
  /\ flows'[i].result = "error"

\* background provider call j is rejected in this step
BgCallRejected(j) ==
  /\ j \in DOMAIN bg
  /\ bg[j].st = "pending"
  /\ bg'[j].st = "rejected"

\* C2 as stated: every rejected provider call, whatever its call site, appends
\* exactly one line, prefixed "[error]", and leaves the Session unchanged.
C2_EveryRejectionLogsOneError ==
  [][((\E i \in DOMAIN flows : FlowCallRejected(i)) \/ (\E j \in DOMAIN bg : BgCallRejected(j)))
       => /\ Len(logs') = Len(logs) + 1
          /\ SubSeq(logs', 1, Len(logs)) = logs
          /\ IsErrorLine(logs'[Len(logs')])
          /\ session' = session]_vars

\* C2 amended: a rejected provider call of a button handler appends exactly one
\* line, prefixed "[error]", while the page that started it is mounted (and
\* none afterwards); a rejected re-connect after accountChanged appends exactly
\* one line "[accountChanged] Failed to re-connect: ..." instead; a rejected
\* eager connect and a rejected teardown disconnect append nothing.  The
\* Session is unchanged in every case.
C2_RejectionLogging ==
  [][/\ \A i \in DOMAIN flows :
          FlowCallRejected(i) =>
            /\ session' = session
            /\ IF Live(flows[i].inst)
                 THEN /\ Len(logs') = Len(logs) + 1
                      /\ SubSeq(logs', 1, Len(logs)) = logs
                      /\ IsErrorLine(logs'[Len(logs')])
                 ELSE logs' = logs
     /\ \A j \in DOMAIN bg :
          BgCallRejected(j) =>
            /\ session' = session
            /\ IF bg[j].site = "reconnect" /\ Live(bg[j].inst)
                 THEN Appended(<< <<"[accountChanged] Failed to re-connect: ", "msg(e1)">> >>)
                 ELSE logs' = logs]_vars

\* C2 witness: a signing call of a mounted page's action was rejected and the
\* log ends with that action's "[error]" line.
C2_Witness ==
  \E i \in DOMAIN flows :
    /\ flows[i].result = "error"
    /\ Live(flows[i].inst)
    /\ flows[i].kind.fn \in SingleFns
    /\ flows[i].trace[Len(flows[i].trace)].api = "signTransaction"
    /\ logs # <<>>
    /\ IsErrorLine(logs[Len(logs)])
    /\ logs[Len(logs)] = <<"> ">> \o flows[i].out[Len(flows[i].out)]

\* C3: no rejection of a provider call propagates unhandled; every call
\* site, the teardown disconnect included, has a rejection handler.
C3_NoUnhandledRejection ==
  /\ unhandled = 0
  /\ \A j \in DOMAIN bg : bg[j].caught

\* C4: when the user changes the cluster selection, the RPC client handle is
\* replaced by a handle for that cluster and exactly one line
\* "[cluster changed] <cluster>" is appended.
C4_ClusterChange ==
  [][(inst' = inst /\ cluster' # cluster)
       => /\ connection' # connection
          /\ connection'.endpoint = cluster'
          /\ Appended(<< <<"[cluster changed] ", cluster'>> >>)]_vars

\* C4 witness: the selection went through all three clusters, each change
\* logged once, and the handle is one for the cluster selected last.
C4_Witness ==
  /\ inst = 1
  /\ logs = << <<"> ", "[cluster changed] ", "devnet">>,
               <<"> ", "[cluster changed] ", "testnet">>,
               <<"> ", "[cluster changed] ", "mainnet-beta">>,
               <<"> ", "[cluster changed] ", "devnet">> >>
  /\ cluster = "devnet"
  /\ connection = NewConnection("devnet", 4)

\* C5: the handle is always a client for the selected cluster; within one
\* instance of the page the cluster and the handle change only in the
\* user's cluster-selection step, and both change in that one step.
C5_ClusterAndHandleTogether ==
  /\ [](connection.endpoint = cluster)
  /\ [][(inst' = inst /\ (cluster' # cluster \/ connection' # connection))
          => /\ cluster' # cluster
             /\ connection' # connection
             /\ connection'.endpoint = cluster'
             /\ inputs' = inputs + 1
             /\ UNCHANGED <<flows, bg, queue, publicKey, connected, provPK, subs>>]_vars

\* C5 witness: the selection changed while an action that captured the old
\* handle is still in flight.
C5_Witness ==
  /\ cluster = "testnet"
  /\ connection.endpoint = "testnet"
  /\ \E i \in DOMAIN flows : flows[i].pc # "done" /\ flows[i].conn.endpoint = "devnet"

\* ---- what an action did: the calls of its trace and the lines it logged
ProviderCalls(f) == SelectSeq(f.trace, LAMBDA c : c.to = "provider")
Broadcasts(f) == SelectSeq(f.trace, LAMBDA c : c.api = "sendRawTransaction")
ErrorLines(f) == SelectSeq(f.out, IsErrorText)
LinesOf(f, head) == SelectSeq(f.out, LAMBDA l : l[1] = head)
NewCalls(f, g) == SubSeq(g.trace, Len(f.trace) + 1, Len(g.trace))
NewLines(f, g) == SubSeq(g.out, Len(f.out) + 1, Len(g.out))
BecameError(f, g) == f.result # "error" /\ g.result = "error"

\* an awaited fetch of a build, or an awaited broadcast, of the action rejects
AwaitedStepRejected(f, g) ==
  \/ /\ f.pc = "build"
     /\ \E n \in DOMAIN f.b : f.b[n].st \in {"lut", "bh"} /\ g.b[n].st = "failed"
  \/ /\ f.pc = "send"
     /\ \E n \in DOMAIN f.sent : f.sent[n] = "pending" /\ g.sent[n] = "rejected"

\* what holds of an action in every state, for C6
C6_State(f) ==
  /\ Len(ErrorLines(f)) = (IF f.result = "error" THEN 1 ELSE 0)
  /\ (\E n \in DOMAIN f.b : f.b[n].st = "failed") => ProviderCalls(f) = <<>>
  /\ f.result = "error" => f.pc = "done"

\* the step in which the action fails: one "[error]" line, no call issued
C6_Failing(f, g) ==
  /\ AwaitedStepRejected(f, g) => BecameError(f, g)
  /\ BecameError(f, g) =>
       /\ g.trace = f.trace
       /\ Len(g.out) = Len(f.out) + 1
       /\ SubSeq(g.out, 1, Len(f.out)) = f.out
       /\ IsErrorText(g.out[Len(g.out)])

\* C6 as stated: when an awaited step of an action rejects, the action
\* appends exactly one "[error]" line, asks the provider nothing after a
\* build failure, and nothing of the action runs after that line.
C6_NothingRunsAfterError ==
  /\ [](\A i \in DOMAIN flows : C6_State(flows[i]))
  /\ [][\A i \in DOMAIN flows :
          /\ C6_Failing(flows[i], flows'[i])
          /\ flows[i].result = "error"
               => /\ flows'[i].trace = flows[i].trace
                  /\ flows'[i].out = flows[i].out]_vars

\* C6 amended: when an awaited step of an action rejects, the action's
\* handler appends exactly one "[error]" line in that step and the action
\* makes no provider call, broadcast or confirmation wait afterwards (after
\* a build failure the provider is never asked to sign); a single-payload
\* action does nothing more at all, while in a batch flow the sibling
\* payload build already in flight is not cancelled: it may still fetch its
\* block reference and append its "blockhash: ..." line after the error line.
C6_RejectionEndsAction ==
  /\ [](\A i \in DOMAIN flows : C6_State(flows[i]))
  /\ [][\A i \in DOMAIN flows :
          /\ C6_Failing(flows[i], flows'[i])
          /\ flows[i].result = "error"
               => /\ flows'[i].result = "error"
                  /\ \A n \in DOMAIN NewCalls(flows[i], flows'[i]) :
                       /\ NewCalls(flows[i], flows'[i])[n].to = "rpc"
                       /\ NewCalls(flows[i], flows'[i])[n].api = "getLatestBlockhash"
                  /\ \A n \in DOMAIN NewLines(flows[i], flows'[i]) :
                       NewLines(flows[i], flows'[i])[n][1] = "blockhash: "
                  /\ buildCount(flows[i].kind) < 2 => flows'[i] = flows[i]]_vars

\* C6 witness: in a batch flow the first build was rejected, the error line
\* was logged, and the sibling build then logged its block reference.
C6_Witness ==
  \E i \in DOMAIN flows :
    /\ buildCount(flows[i].kind) = 2
    /\ flows[i].result = "error"
    /\ flows[i].b[1].st = "failed"
    /\ flows[i].b[2].st = "ok"
    /\ Len(flows[i].out) = 4
    /\ IsErrorText(flows[i].out[3])
    /\ flows[i].out[4][1] = "blockhash: "

C8_BatchBroadcast ==
  \A i \in DOMAIN flows :
    flows[i].kind.fn \in MultipleFns =>
      LET f == flows[i]
          sentLines == LinesOf(f, "sent raw txns: ")
      IN /\ (\E n \in DOMAIN f.sent : f.sent[n] = "rejected") =>
              /\ Len(ErrorLines(f)) = 1
              /\ ErrorLines(f)[1][2] = "signMultipleTransactions: "
              /\ sentLines = <<>>
         /\ sentLines # <<>> =>
              /\ Len(sentLines) = 1
              /\ \A n \in DOMAIN f.sent : f.sent[n] \notin {"pending", "rejected"}
              /\ sentLines[1] = <<"sent raw txns: ">> \o [n \in DOMAIN f.signed |-> TxId(f.signed[n])]
              /\ f.result = "ok"

\* C8 witness: one broadcast of a two-payload batch resolved, the other was
\* rejected, and the action ended with its error line.
C8_Witness ==
  \E i \in DOMAIN flows :
    /\ flows[i].kind.fn \in MultipleFns
    /\ flows[i].sent = <<"txid1", "rejected">>
    /\ flows[i].result = "error"
    /\ LinesOf(flows[i], "sent raw txns: ") = <<>>

\* C9 as stated: every single-payload sign-only flow, through signTransaction
\* and through the generic request call, broadcasts the signed payload
\* exactly once after the provider returned it, and then logs the result.
C9_EverySignOnlyFlowBroadcasts ==
  \A i \in DOMAIN flows :
    (flows[i].kind.fn \in SingleFns \cup SingleRequestFns /\ flows[i].result = "ok")
      => Len(Broadcasts(flows[i])) = 1

\* C9 amended: a single-payload sign-only flow through the provider's named
\* signTransaction method broadcasts the signed payload exactly once, through
\* the action's RPC client, after the provider returned it, and logs the
\* "signature: ..." line only once the broadcast resolved; the flows through
\* the generic request call make no broadcast and log the provider's answer.
C9_SignOnlyBroadcast ==
  \A i \in DOMAIN flows :
    LET f == flows[i]
    IN /\ f.kind.fn \in SingleFns =>
            /\ Len(Broadcasts(f)) = Len(f.signed)
            /\ Len(f.signed) <= 1
            /\ f.pc = "send" => f.signed # <<>>
            /\ f.signed # <<>> =>
                 /\ ProviderCalls(f) = <<ProviderCall("signTransaction", <<f.b[1].tx>>, NoOpt)>>
                 /\ f.signed[1] = Signed(f.b[1].tx)
                 /\ f.trace[Len(f.trace)] =
                      RpcCall("sendRawTransaction", f.conn, <<serialize(f.signed[1])>>)
            /\ LinesOf(f, "signature: ") # <<>> <=> f.result = "ok"
            /\ f.result = "ok" =>
                 /\ f.sent[1] \notin {"pending", "rejected"}
                 /\ f.out[Len(f.out)] = <<"signature: ", f.sent[1]>>
       /\ f.kind.fn \in SingleRequestFns =>
            /\ Broadcasts(f) = <<>>
            /\ f.result = "ok" => Len(LinesOf(f, "signTransaction: ")) = 1

\* C9 witness: a signTransaction flow ended with its signature line after
\* its one broadcast, and a request flow ended without any broadcast.
C9_Witness ==
  \E i, j \in DOMAIN flows :
    /\ flows[i].kind.fn \in SingleFns
    /\ flows[i].result = "ok"
    /\ Len(Broadcasts(flows[i])) = 1
    /\ flows[j].kind.fn \in SingleRequestFns
    /\ flows[j].result = "ok"

\* the steps of an action, without the payload encoding and the routing
Steps(f) == [n \in DOMAIN f.trace |-> [to |-> f.trace[n].to, api |-> f.trace[n].api,
                                       opt |-> f.trace[n].opt]]

\* C10: the generic-request sign-and-submit flow and the direct one for the
\* legacy payload, given the same outcomes, perform the same steps (with
\* retry count 3 and the same finality level) and append the same lines.
C10_RequestEquivalentToDirect ==
  \A i, j \in DOMAIN flows :
    (/\ flows[i].kind.fn = "signAndSendTransaction"
     /\ flows[j].kind.fn = "signAndSendTransactionRequest"
     /\ flows[i].conn.endpoint = flows[j].conn.endpoint
     /\ flows[i].b[1] = flows[j].b[1]
     /\ flows[i].pc = flows[j].pc
     /\ flows[i].result = flows[j].result)
      => /\ Steps(flows[i]) = Steps(flows[j])
         /\ flows[i].out = flows[j].out

\* ---- provider events as they are dispatched
\* the event at the head of the queue is dispatched in this step
Dispatched(type) ==
  /\ queue # <<>>
  /\ queue' = Tail(queue)
  /\ Head(queue).type = type

\* background call j settles in this step
BgCallSettled(j) ==
  /\ j \in DOMAIN bg
  /\ bg[j].st = "pending"
  /\ bg'[j].st # "pending"

\* C11: on a mounted page, an accountChanged event carrying an identity
\* records that identity, appends one "Switched account" line and makes no
\* provider call; one carrying no identity appends one "Switched unknown
\* account" line and issues exactly one full connect request; that request's
\* resolution appends one success line, its rejection one failure line, and
\* neither issues a further connect request.
C11_AccountChanged ==
  [][/\ (Dispatched("accountChanged") /\ inst # 0) =>
          IF Head(queue).arg # NULL
            THEN /\ publicKey' = Head(queue).arg
                 /\ Appended(<< <<"[accountChanged] Switched account to ",
                                  toBase58(Head(queue).arg)>> >>)
                 /\ bg' = bg
            ELSE /\ Appended(<< <<"[accountChanged] Switched unknown account">> >>)
                 /\ bg' = Append(bg, BgCall("reconnect", inst, FALSE, TRUE))
     /\ \A j \in DOMAIN bg :
          (BgCallSettled(j) /\ bg[j].site = "reconnect") =>
            /\ Len(bg') = Len(bg)
            /\ Live(bg[j].inst) =>
                 IF bg'[j].st = "resolved"
                   THEN Appended(<< <<"[accountChanged] Reconnected successfully">> >>)
                   ELSE Appended(<< <<"[accountChanged] Failed to re-connect: ", "msg(e1)">> >>)]_vars

\* C12: on a mounted page, after a connect event carrying identity k the
\* Session holds k with the connected flag true, after a disconnect event it
\* holds no identity with the flag false, whatever it held before, and each
\* such event appends exactly one line ("[connect] k" or "[disconnect] ...").
C12_ConnectDisconnect ==
  [][/\ (Dispatched("connect") /\ inst # 0) =>
          /\ publicKey' = Head(queue).arg
          /\ connected' = TRUE
          /\ Appended(<< <<"[connect] ", toBase58(Head(queue).arg)>> >>)
     /\ (Dispatched("disconnect") /\ inst # 0) =>
          /\ publicKey' = NULL
          /\ connected' = FALSE
          /\ Appended(<< <<"[disconnect] ", "wave">> >>)]_vars

\* C12 witness: the remounted page, while two instances' handlers are
\* subscribed, handled a connect event for k1 and then a disconnect event,
\* one line each.
C12_Witness ==
  /\ inst = 2
  /\ Len(subs) = 2
  /\ publicKey = NULL
  /\ connected = FALSE
  /\ logs = << <<"> ", "[cluster changed] ", "devnet">>,
               <<"> ", "[connect] ", "b58(k1)">>,
               <<"> ", "[disconnect] ", "wave">> >>

\* the eager connect requests issued by instance i
EagerCalls(calls, i) ==
  SelectSeq(calls, LAMBDA c : c.site = "eager" /\ c.inst = i)

\* C13: mounting the page with a provider present issues exactly one connect
\* request, flagged only-if-trusted; its rejection is ignored silently: no
\* line is appended, the Session is unchanged and no connect request follows.
C13_EagerConnect ==
  /\ [](\A i \in 1..mounts :
          /\ Len(EagerCalls(bg, i)) = (IF providerPresent THEN 1 ELSE 0)
          /\ \A n \in DOMAIN EagerCalls(bg, i) :
               EagerCalls(bg, i)[n].onlyIfTrusted /\ EagerCalls(bg, i)[n].caught)
  /\ [][/\ mounts' # mounts =>
             bg' = (IF providerPresent THEN Append(bg, BgCall("eager", mounts', TRUE, TRUE))
                    ELSE bg)
        /\ \A j \in DOMAIN bg :
             (BgCallRejected(j) /\ bg[j].site = "eager") =>
               /\ logs' = logs
               /\ session' = session
               /\ Len(bg') = Len(bg)
               /\ unhandled' = unhandled
               /\ flows' = flows]_vars

\* C13 witness: the eager connect of the mounted page was rejected and the
\* log holds nothing but the initial cluster line.
C13_Witness ==
  /\ inst = 1
  /\ \E j \in DOMAIN bg : bg[j].site = "eager" /\ bg[j].inst = 1 /\ bg[j].st = "rejected"
  /\ logs = << <<"> ", "[cluster changed] ", "devnet">> >>
  /\ publicKey = NULL
  /\ ~connected

\* ---- the log as the actions and the event handlers grow it
Rendered(lines) == [n \in DOMAIN lines |-> <<"> ">> \o lines[n]]

\* the lines action i asked addLog to append in this step
NewOut(i) == IF i \in DOMAIN flows THEN NewLines(flows[i], flows'[i]) ELSE flows'[i].out

\* a is b with some elements left out, the order kept
RECURSIVE IsSubsequence(_, _)
IsSubsequence(a, b) ==
  IF a = <<>> THEN TRUE
  ELSE IF b = <<>> THEN FALSE
  ELSE IF Head(a) = Head(b) THEN IsSubsequence(Tail(a), Tail(b))
  ELSE IsSubsequence(a, Tail(b))

RECURSIVE LinesRequested(_, _)
LinesRequested(fs, i) ==
  IF fs = <<>> THEN 0
  ELSE (IF Head(fs).inst = i THEN Len(Head(fs).out) ELSE 0) + LinesRequested(Tail(fs), i)

\* C14: the log of a mounted page is append-only under every interleaving of
\* actions in flight and provider events: a step only adds lines at its end,
\* the lines an action asks to append in a step are added there, once and in
\* order, and the log holds every line of every action of the page, each
\* action's lines in the order it appended them.
C14_LogAppendOnly ==
  /\ [](Live(inst) =>
          /\ \A i \in DOMAIN flows :
               flows[i].inst = inst => IsSubsequence(Rendered(flows[i].out), logs)
          /\ Len(logs) >= 1 + LinesRequested(flows, inst))
  /\ [][/\ inst' = inst =>
             /\ Len(logs') >= Len(logs)
             /\ SubSeq(logs', 1, Len(logs)) = logs
        /\ \A i \in DOMAIN flows' :
             ((i \notin DOMAIN flows \/ flows'[i] # flows[i]) /\ Live(flows'[i].inst))
               => logs' = logs \o Rendered(NewOut(i))
        /\ ((\E type \in {"connect", "disconnect", "accountChanged"} : Dispatched(type))
              /\ inst # 0) => Len(logs') = Len(logs) + 1]_vars

\* C14 witness: a message-signing action appended its line between the lines
\* of a sign-only action that was in flight, and the log holds all five.
C14_Witness ==
  \E i, j \in DOMAIN flows :
    /\ flows[i].kind.fn \in SingleFns
    /\ flows[i].result = "ok"
    /\ Len(flows[i].out) = 4
    /\ flows[j].kind.fn = "signMessage"
    /\ flows[j].result = "ok"
    /\ Len(logs) = 7
    /\ logs[4] = <<"> ">> \o flows[i].out[2]
    /\ logs[5] = <<"> ">> \o flows[j].out[1]
    /\ logs[6] = <<"> ">> \o flows[i].out[3]

\* ---- the payloads the provider is asked to sign
SigningApis == {"signTransaction", "signAllTransactions", "signAndSendTransaction"}
SigningCalls(f) == SelectSeq(f.trace, LAMBDA c : c.to = "provider" /\ c.api \in SigningApis)

\* the payload behind argument a of a call: a request carries it encoded
PayloadOf(c, a) == IF c.via = "request" THEN a.b58.message ELSE a

\* the action fetched a block reference from its RPC client before call n
FetchedBefore(f, n) ==
  \E m \in 1..(n - 1) :
    /\ f.trace[m].to = "rpc"
    /\ f.trace[m].api \in {"getRecentBlockhash", "getLatestBlockhash"}

\* C15: every constructed payload handed to the provider for signing carries
\* as fee payer the provider's account identity read while it was built, and
\* the block reference the action's RPC client returned during that action.
C15_PayerAndBlockReference ==
  \A i \in DOMAIN flows :
    \A n \in DOMAIN flows[i].trace :
      LET c == flows[i].trace[n]
      IN (c.to = "provider" /\ c.api \in SigningApis) =>
           \A a \in DOMAIN c.args :
             LET tx == PayloadOf(c, c.args[a])
             IN tx.format # "undefined" =>
                  /\ tx.feePayer \in Keys
                  /\ tx.feePayer = tx.from
                  /\ tx.blockhash = Blockhash(flows[i].conn)
                  /\ FetchedBefore(flows[i], n)

\* the token "transaction" of the legacy page reached the provider
C15_LegacyTokenPayload ==
  \E i \in DOMAIN flows :
    /\ variant = "legacy"
    /\ flows[i].kind.fn = "signAndSendSplTokenTransaction"
    /\ SigningCalls(flows[i]) # <<>>
    /\ SigningCalls(flows[i])[1].args[1].format = "instruction"
    /\ SigningCalls(flows[i])[1].args[1].feePayer = "unset"

\* ---- the direct sign-and-submit flows
DirectSendFns == SendFns \ {"signAndSendTransactionRequest"}
ConfirmedLines(f) == LinesOf(f, "Transaction ")
Confirmations(f) == SelectSeq(f.trace, LAMBDA c : c.api = "confirmTransaction")

\* C16: in a direct sign-and-submit flow the line "Transaction <id> confirmed"
\* is appended only after the payload was built, then the provider's
\* signAndSendTransaction call for it resolved with <id>, then the RPC
\* client's confirmation wait for <id> resolved; it is appended in the step
\* in which that wait resolves, and <id> is the identifier the provider
\* returned for the payload.
C16_ConfirmedLine ==
  /\ [](\A i \in DOMAIN flows :
          LET f == flows[i]
              last == Len(f.trace)
          IN (f.kind.fn \in DirectSendFns /\ ConfirmedLines(f) # <<>>) =>
               /\ Len(ConfirmedLines(f)) = 1
               /\ f.out[Len(f.out)] = <<"Transaction ", f.sig, " confirmed">>
               /\ f.result = "ok"
               /\ f.b[1].st = "ok"
               /\ f.sig = TxId(f.b[1].tx)
               /\ last >= 3
               /\ f.trace[last] = RpcCall("confirmTransaction", f.conn, <<f.sig>>)
               /\ f.trace[last - 1].to = "provider"
               /\ f.trace[last - 1].api = "signAndSendTransaction"
               /\ f.trace[last - 1].args = <<f.b[1].tx>>
               /\ \A n \in 1..(last - 2) : f.trace[n].to = "rpc")
  /\ [][\A i \in DOMAIN flows :
          (ConfirmedLines(flows[i]) = <<>> /\ ConfirmedLines(flows'[i]) # <<>>)
            => /\ flows[i].pc = "confirm"
               /\ flows[i].sig # "none"
               /\ flows'[i].trace = flows[i].trace]_vars

\* C16 witness: a version-0 flow with a lookup table ran to its confirmed
\* line.
C16_Witness ==
  \E i \in DOMAIN flows :
    /\ flows[i].kind.fn = "signAndSendTransactionV0WithLookupTable"
    /\ flows[i].result = "ok"
    /\ flows[i].out = << <<"Transaction ", "txid1", " confirmed">> >>
    /\ Len(flows[i].trace) = 4
    /\ logs[Len(logs)] = <<"> ", "Transaction ", "txid1", " confirmed">>

\* what C17 asks of an action in every state: one signing call at most, one
\* broadcast per signed payload, one confirmation wait at most, retry count 3
C17_State(f) ==
  /\ Len(ProviderCalls(f)) <= 1
  /\ Len(Broadcasts(f)) = Len(f.signed)
  /\ \A n \in DOMAIN Broadcasts(f) : Broadcasts(f)[n].args = <<serialize(f.signed[n])>>
  /\ \A m, n \in DOMAIN f.signed : m # n => f.signed[m] # f.signed[n]
  /\ Len(Confirmations(f)) <= 1
  /\ \A n \in DOMAIN f.trace :
       f.trace[n].api = "signAndSendTransaction" => f.trace[n].opt.maxRetries = 3

\* C17 as stated: the orchestrator never retries; each payload is sent for
\* signing at most once, each signed payload is broadcast at most once,
\* confirmation is requested at most once, every sign-and-submit request
\* carries retry count 3, and a rejected action issues no further provider
\* or RPC call.
C17_NoCallAfterRejection ==
  /\ [](\A i \in DOMAIN flows : C17_State(flows[i]))
  /\ [][\A i \in DOMAIN flows :
          flows[i].result = "error" => flows'[i].trace = flows[i].trace]_vars

\* C17 amended: as above, except that a rejected action issues no further
\* provider call, broadcast or confirmation wait, while the sibling build
\* of a batch flow, still in flight, may issue its block-reference fetch.
C17_NoRetry ==
  /\ [](\A i \in DOMAIN flows : C17_State(flows[i]))
  /\ [][\A i \in DOMAIN flows :
          flows[i].result = "error" =>
            /\ \A n \in DOMAIN NewCalls(flows[i], flows'[i]) :
                 /\ NewCalls(flows[i], flows'[i])[n].to = "rpc"
                 /\ NewCalls(flows[i], flows'[i])[n].api = "getLatestBlockhash"
            /\ buildCount(flows[i].kind) < 2 => flows'[i].trace = flows[i].trace]_vars

\* C17 witness: a generic-request sign-and-submit call with retry count 3
\* was rejected and the action made no call after it; a batch action whose
\* first lookup-table fetch was rejected holds its sibling's block-reference
\* fetch.
C17_Witness ==
  \E i, j \in DOMAIN flows :
    /\ flows[i].kind.fn = "signAndSendTransactionRequest"
    /\ flows[i].result = "error"
    /\ Len(flows[i].trace) = 2
    /\ flows[i].trace[2].api = "signAndSendTransaction"
    /\ flows[i].trace[2].opt.maxRetries = 3
    /\ buildCount(flows[j].kind) = 2
    /\ flows[j].result = "error"
    /\ flows[j].b[1].st = "failed"
    /\ Len(flows[j].trace) = 3
    /\ flows[j].trace[3].api = "getLatestBlockhash"

\* a rejection of an awaited call is what the action's "[error]" line reports
ReportsRejection(f) ==
  /\ ErrorLines(f) # <<>>
  /\ \E e \in Errs : ErrorLines(f)[1][3] = stringifyErr(e)

\* C18: nothing cancels an initiated action: no click, cluster change or
\* provider event alters an action in flight, and an action whose payload
\* construction began with an account identity continues with its next step
\* whenever its awaited call resolves, so it ends with an error only when one
\* of its awaited calls was rejected, also when a disconnect or
\* accountChanged event arrives while it is in flight.
C18_NoCancellation ==
  /\ [](\A i \in DOMAIN flows :
          (/\ flows[i].result = "error"
           /\ flows[i].b # <<>>
           /\ flows[i].b[1].st # "none") => ReportsRejection(flows[i]))
  /\ [][\A i \in DOMAIN flows :
          (\/ queue' # queue
           \/ cluster' # cluster
           \/ session' # session
           \/ Len(flows') # Len(flows)) => flows'[i] = flows[i]]_vars

\* C19: whatever the sequence of mounts, unmounts and remounts, the handlers
\* of at most one instance of the page are subscribed on the provider: one
\* handler per event type.
C19_OneHandlerPerEvent == Len(subs) <= 1

\* C20: an action that has ended has appended a terminal outcome: it ended
\* with a result, either its success line(s) and no "[error]" line, or
\* exactly one "[error]" line; none ends without a line, also when the
\* provider had no account identity when the payload was to be built.
C20_TerminalOutcome ==
  \A i \in DOMAIN flows :
    flows[i].pc = "done" =>
      /\ flows[i].result \in {"ok", "error"}
      /\ flows[i].result = "error" => Len(ErrorLines(flows[i])) = 1
      /\ flows[i].result = "ok" =>
           /\ ErrorLines(flows[i]) = <<>>
           /\ flows[i].out # <<>>

\* C21: no action asks the provider to sign without a constructed payload:
\* every argument of a signTransaction, signAllTransactions or
\* signAndSendTransaction call, named or through request, is a payload that
\* was built, and an action whose construction returned nothing because the
\* provider had no account identity makes no such call.
C21_NoSigningWithoutPayload ==
  \A i \in DOMAIN flows :
    /\ \A n \in DOMAIN SigningCalls(flows[i]) :
         \A a \in DOMAIN SigningCalls(flows[i])[n].args :
           PayloadOf(SigningCalls(flows[i])[n], SigningCalls(flows[i])[n].args[a]).format
             # "undefined"
    /\ (\E n \in DOMAIN flows[i].b : flows[i].b[n].st = "none") => SigningCalls(flows[i]) = <<>>

\* the RPC calls of an action
RpcCalls(f) == SelectSeq(f.trace, LAMBDA c : c.to = "rpc")

\* C22: every RPC call of an action (block-reference or lookup-table fetch,
\* broadcast, confirmation wait) goes to the handle that was current when the
\* action was initiated, also when the cluster selection changes while the
\* action is in flight; a handle installed by a change is used only by
\* actions initiated after it.
C22_OneHandlePerAction ==
  /\ [](\A i \in DOMAIN flows :
          /\ \A n \in DOMAIN RpcCalls(flows[i]) : RpcCalls(flows[i])[n].conn = flows[i].conn
          /\ flows[i].conn.id < nextConn)
  /\ [][/\ \A i \in DOMAIN flows : flows'[i].conn = flows[i].conn
        /\ \A i \in DOMAIN flows' : i \notin DOMAIN flows => flows'[i].conn = connection
        /\ connection' # connection =>
             \A i \in DOMAIN flows' : flows'[i].conn # connection']_vars

\* C22 witness: the selection changed to testnet after a sign-only action
\* had begun on devnet; the action then fetched its block reference from,
\* and broadcast through, the devnet handle and logged its signature.
C22_Witness ==
  \E i \in DOMAIN flows :
    /\ flows[i].kind.fn \in SingleFns
    /\ flows[i].result = "ok"
    /\ cluster = "testnet"
    /\ connection.endpoint = "testnet"
    /\ flows[i].conn = NewConnection("devnet", 1)
    /\ Len(RpcCalls(flows[i])) = 2
    /\ RpcCalls(flows[i])[2].api = "sendRawTransaction"
    /\ RpcCalls(flows[i])[2].conn = NewConnection("devnet", 1)
    /\ Len(logs) = 7
    /\ logs[4] = <<"> ", "[cluster changed] ", "testnet">>
    /\ logs[5] = <<"> ", "blockhash: ", "bh(devnet)", " = ", "finalized">>

====
